---- MODULE Spec2Model ----
(***************************************************************************)
(* Model of mytube (app.py): the transcript segmenter fetch_transcript,    *)
(* the ranker search_segments and the /load and /search request handlers   *)
(* over the process-wide videos_store.                                     *)
(*                                                                         *)
(* Text is a sequence of one-character strings; " " is the only            *)
(* whitespace character of the model's alphabet.                           *)
(***************************************************************************)
EXTENDS Integers, Sequences, FiniteSets, TLC

VARIABLES
    \* ---- one run of fetch_transcript (specification SegSpec) ----
    transcript_data,   \* the snippets delivered by the transcript provider
    segments,          \* the local list `segments`
    current_segment,   \* the local accumulator `current_segment`
    entry_pos,         \* position of the for loop over the snippets
    seg_pc,            \* "off" | "loop" | "done"
    \* ---- one call of the ranker (specification RankSpec) ----
    rk_strategy,       \* "off" | "SEMANTIC" | "LEXICAL"
    rk_segments,       \* the argument `segments`
    rk_query,          \* the argument `query`
    rk_reply,          \* what the external ranker answers to the one request
    rk_out,            \* the outcome of the call: a result list or an exception
    rk_pc,             \* "off" | "call" | "done"
    \* ---- the request handlers (specification Spec) ----
    videos_store,      \* the process-wide dict video_id -> {"segments": [...]}
    pc,                \* per request thread: "idle" | "fetching" | "storing" | "ranking"
    loc,               \* per request thread: the handler's local variables
    response           \* the request last answered and the response it got

seg_vars == <<transcript_data, segments, current_segment, entry_pos, seg_pc>>

rk_vars == <<rk_strategy, rk_segments, rk_query, rk_reply, rk_out, rk_pc>>

srv_vars == <<videos_store, pc, loc, response>>

vars == <<seg_vars, rk_vars, srv_vars>>

----------------------------------------------------------------------------
(* Text helpers *)

\* Python str.isspace() on one character of the alphabet.
IsSpace(c) == c = " "

\* Python str.lstrip().
RECURSIVE LStrip(_)
LStrip(s) ==
    IF s = <<>> THEN <<>>
    ELSE IF IsSpace(Head(s)) THEN LStrip(Tail(s)) ELSE s

\* Python str.rstrip().
RECURSIVE RStrip(_)
RStrip(s) ==
    IF s = <<>> THEN <<>>
    ELSE IF IsSpace(s[Len(s)]) THEN RStrip(SubSeq(s, 1, Len(s) - 1)) ELSE s

\* Python str.strip().
Strip(s) == RStrip(LStrip(s))

----------------------------------------------------------------------------
(* fetch_transcript: grouping of the snippets into 30-second segments *)

segment_duration == 30

EmptySegment == [start |-> 0, text |-> <<>>]

\* The loop body of fetch_transcript, dropping the " " separator.
LoopBodyNoSeparator(segs, cur, entry) ==
    LET expected_start == (entry.start \div segment_duration) * segment_duration
        flush == expected_start # cur.start /\ cur.text # <<>>
        base  == IF flush THEN <<>> ELSE cur.text
    IN  [segments |-> IF flush THEN Append(segs, cur) ELSE segs,
         current  |-> [start |-> expected_start, text |-> base \o entry.text]]

\* The loop body of fetch_transcript, flushing on every snippet.
LoopBodyAlwaysFlush(segs, cur, entry) ==
    LET expected_start == (entry.start \div segment_duration) * segment_duration
        flush == cur.text # <<>>
        base  == IF flush THEN <<>> ELSE cur.text
    IN  [segments |-> IF flush THEN Append(segs, cur) ELSE segs,
         current  |-> [start |-> expected_start,
                       text  |-> base \o <<" ">> \o entry.text]]

\* One iteration of `for entry in transcript_data.snippets` (lines 41-50):
\* `//` is floor division, so a negative start falls into a negative bucket.
LoopBody(segs, cur, entry) ==
    LET expected_start == (entry.start \div segment_duration) * segment_duration
        flush == expected_start # cur.start /\ cur.text # <<>>
        base  == IF flush THEN <<>> ELSE cur.text
    IN  [segments |-> IF flush THEN Append(segs, cur) ELSE segs,
         current  |-> [start |-> expected_start,
                       text  |-> base \o <<" ">> \o entry.text]]

\* Lines 52-58: the final flush, then strip() of every segment's text.
FinishSegments(segs, cur) ==
    LET all == IF cur.text # <<>> THEN Append(segs, cur) ELSE segs
    IN  [i \in 1..Len(all) |-> [start |-> all[i].start, text |-> Strip(all[i].text)]]

RECURSIVE RunLoop(_, _, _)
RunLoop(segs, cur, snippets) ==
    IF snippets = <<>> THEN FinishSegments(segs, cur)
    ELSE LET st == LoopBody(segs, cur, Head(snippets))
         IN  RunLoop(st.segments, st.current, Tail(snippets))

\* fetch_transcript on the snippets the provider returned (lines 37-58).
fetch_transcript(snippets) == RunLoop(<<>>, EmptySegment, snippets)

----------------------------------------------------------------------------
(* search_segments: the SEMANTIC ranker *)

top_n == 5

Min(a, b) == IF a <= b THEN a ELSE b

\* format_time (lines 61-65): "{m}:{s:02d}" as the pair of its two numbers.
format_time(seconds) == [m |-> seconds \div 60, s |-> seconds % 60]

\* The external ranker's reply is a text: an optional opening code fence
\* ("FENCE", or "FENCE_JSON" when tagged json), a body and an optional closing
\* fence.  Lines 95-99: the fences are removed only when the
\* text starts with an opening fence.
StripFences(reply) ==
    IF reply.prefix \in {"FENCE", "FENCE_JSON"}
    THEN [prefix |-> "", body |-> reply.body, suffix |-> ""]
    ELSE reply

Raised(what) == [ok |-> FALSE, error |-> what]

Returned(results) == [ok |-> TRUE, results |-> results]

\* json.loads (line 100): fails on anything but a bare JSON document.
json_loads(raw) ==
    IF raw.prefix = "" /\ raw.suffix = "" /\ raw.body.kind = "json"
    THEN Returned(raw.body.value)
    ELSE Raised("JSONDecodeError")

\* results.sort(key=score, reverse=True) that puts an entry before its ties.
InsertBeforeTies(sorted, x) ==
    LET before == {i \in 1..Len(sorted) : sorted[i].score > x.score}
        k == Cardinality(before)
    IN  SubSeq(sorted, 1, k) \o <<x>> \o SubSeq(sorted, k + 1, Len(sorted))

\* One insertion of the stable descending sort: x goes after every entry whose
\* score is greater than or equal to its own.
InsertByScore(sorted, x) ==
    LET before == {i \in 1..Len(sorted) : sorted[i].score >= x.score}
        k == Cardinality(before)
    IN  SubSeq(sorted, 1, k) \o <<x>> \o SubSeq(sorted, k + 1, Len(sorted))

\* list.sort(key=lambda x: x["score"], reverse=True) (line 117): descending and
\* stable, entries of equal score keep their order.
RECURSIVE SortByScoreFrom(_, _)
SortByScoreFrom(sorted, rest) ==
    IF rest = <<>> THEN sorted
    ELSE SortByScoreFrom(InsertByScore(sorted, Head(rest)), Tail(rest))

SortByScore(results) == SortByScoreFrom(<<>>, results)

\* Line 105 negated: the entry is kept.
IndexInRange(idx, segs) == ~(idx < 0 \/ idx >= Len(segs))

\* parsed["results"][:top_n] (line 103).
TakeTopN(items) == SubSeq(items, 1, Min(top_n, Len(items)))

\* The result built for one kept item (lines 107-115); segments[idx] is 0-based.
ResultOf(item, segs) ==
    LET seg == segs[item.index + 1]
    IN  [index  |-> item.index,
         start  |-> seg.start,
         time   |-> format_time(seg.start),
         text   |-> seg.text,
         score  |-> item.score,
         reason |-> IF "reason" \in DOMAIN item THEN item.reason ELSE ""]

\* The loop of lines 102-115 failing the call on an out-of-range index.
RECURSIVE CollectResultsStrict(_, _, _)
CollectResultsStrict(items, segs, acc) ==
    IF items = <<>> THEN Returned(acc)
    ELSE LET item == Head(items) IN
         IF "index" \notin DOMAIN item THEN Raised("KeyError")
         ELSE IF ~IndexInRange(item.index, segs) THEN Raised("IndexError")
         ELSE IF "score" \notin DOMAIN item THEN Raised("KeyError")
         ELSE CollectResultsStrict(Tail(items), segs,
                                   Append(acc, ResultOf(item, segs)))

\* The loop of lines 102-115 over the sliced items: an out-of-range index is
\* skipped, an item without "index", or a kept item without "score", raises
\* KeyError.
RECURSIVE CollectResults(_, _, _)
CollectResults(items, segs, acc) ==
    IF items = <<>> THEN Returned(acc)
    ELSE LET item == Head(items) IN
         IF "index" \notin DOMAIN item THEN Raised("KeyError")
         ELSE IF ~IndexInRange(item.index, segs)
              THEN CollectResults(Tail(items), segs, acc)
         ELSE IF "score" \notin DOMAIN item THEN Raised("KeyError")
         ELSE CollectResults(Tail(items), segs, Append(acc, ResultOf(item, segs)))

\* search_segments(segments, query) (lines 71-118) given the external ranker's
\* behaviour on the one request of lines 78-93.
search_segments(segs, reply) ==
    IF reply.kind = "request_error" THEN Raised("APIError")
    ELSE LET parsed == json_loads(StripFences(reply.text)) IN
         IF ~parsed.ok THEN parsed
         ELSE IF "results" \notin DOMAIN parsed.results THEN Raised("KeyError")
         ELSE LET collected ==
                      CollectResults(TakeTopN(parsed.results.results), segs, <<>>)
              IN  IF ~collected.ok THEN collected
                  ELSE Returned(SortByScore(collected.results))

----------------------------------------------------------------------------
(* The LEXICAL ranker: term-frequency scoring of the segments *)

\* str.lower() on the model's alphabet, whose upper-case letters are H and Z.
LowerChar(c) == CASE c = "H" -> "h" [] c = "Z" -> "z" [] OTHER -> c

Lower(s) == [i \in 1..Len(s) |-> LowerChar(s[i])]

\* Python str.split(): the whitespace-separated words of a text.
RECURSIVE SplitAcc(_, _, _)
SplitAcc(s, word, acc) ==
    LET closed == IF word # <<>> THEN Append(acc, word) ELSE acc
    IN  IF s = <<>> THEN closed
        ELSE IF IsSpace(Head(s)) THEN SplitAcc(Tail(s), <<>>, closed)
        ELSE SplitAcc(Tail(s), Append(word, Head(s)), acc)

Split(s) == SplitAcc(s, <<>>, <<>>)

\* Occurrences of a term counted at every position, overlapping ones included.
RECURSIVE CountOverlapping(_, _)
CountOverlapping(text, term) ==
    IF Len(text) < Len(term) THEN 0
    ELSE (IF SubSeq(text, 1, Len(term)) = term THEN 1 ELSE 0)
         + CountOverlapping(Tail(text), term)

\* Python str.count(term): occurrences scanned left to right, the scan resuming
\* after each occurrence found.
RECURSIVE CountOccurrences(_, _)
CountOccurrences(text, term) ==
    IF Len(text) < Len(term) THEN 0
    ELSE IF SubSeq(text, 1, Len(term)) = term
         THEN 1 + CountOccurrences(SubSeq(text, Len(term) + 1, Len(text)), term)
         ELSE CountOccurrences(Tail(text), term)

\* The running score of one segment: the counts of all query terms added up.
RECURSIVE LexicalScore(_, _)
LexicalScore(text, terms) ==
    IF terms = <<>> THEN 0
    ELSE CountOccurrences(text, Head(terms)) + LexicalScore(text, Tail(terms))

\* The filter that also keeps the segments of score 0.
KeepScoredFrom0(scored) == LET Test(r) == r.score >= 0 IN SelectSeq(scored, Test)

\* Segments with score <= 0 are discarded.
KeepScored(scored) == LET Test(r) == r.score > 0 IN SelectSeq(scored, Test)

\* The LEXICAL strategy: score, discard, sort descending (stable), keep top_n.
lexical_rank(segs, query) ==
    LET terms  == Split(Lower(query))
        scored == [i \in 1..Len(segs) |->
                      [index |-> i - 1,
                       start |-> segs[i].start,
                       time  |-> format_time(segs[i].start),
                       text  |-> segs[i].text,
                       score |-> LexicalScore(Lower(segs[i].text), terms)]]
    IN  Returned(TakeTopN(SortByScore(KeepScored(scored))))

----------------------------------------------------------------------------
(* extract_video_id and get_thumbnail *)

\* A URL is a sequence of tokens: " ", the four markers the patterns look for,
\* "A" and "B" (each a run of characters that starts with 11 id characters, the
\* id being those 11), and "x" (a run with fewer than 11 id characters).
Patterns == <<"v=", "youtu.be/", "embed/", "shorts/">>

IdRuns == {"A", "B"}

NoMatch == <<>>

\* re.search(pattern, url) (line 23): the leftmost place where the marker is
\* directly followed by 11 id characters; 0 when there is none.
SearchPattern(marker, url) ==
    LET hits == {i \in 1..Len(url) - 1 : url[i] = marker /\ url[i + 1] \in IdRuns}
    IN  IF hits = {} THEN 0 ELSE CHOOSE i \in hits : \A j \in hits : i <= j

RECURSIVE FirstPatternMatch(_, _)
FirstPatternMatch(patterns, url) ==
    IF patterns = <<>> THEN NoMatch
    ELSE LET at == SearchPattern(Head(patterns), url)
         IN  IF at # 0 THEN <<url[at + 1]>>
             ELSE FirstPatternMatch(Tail(patterns), url)

\* extract_video_id (lines 14-26): the patterns are tried in order; None is
\* NoMatch.
extract_video_id(url) == FirstPatternMatch(Patterns, url)

\* get_thumbnail (lines 29-30).
get_thumbnail(video_id) ==
    <<"https://img.youtube.com/vi/">> \o video_id \o <<"/hqdefault.jpg">>

----------------------------------------------------------------------------
(* Inputs of the segmenter *)

MaxSnippets == 3

T_foo         == <<"f", "o", "o">>
T_hello_world == <<"h", "e", "l", "l", "o", " ", "w", "o", "r", "l", "d">>
T_hello_again == <<"h", "e", "l", "l", "o", " ", "a", "g", "a", "i", "n">>
T_hello_world_foo == T_hello_world \o <<" ">> \o T_foo

SnippetStarts == {-1, 0, 15, 35}
SnippetTexts  == {T_foo, <<" ">>, <<" ", "a", " ", "b", " ">>, <<>>}
Snippets      == [start : SnippetStarts, text : SnippetTexts]

Scenario == << [start |-> 0,  text |-> T_hello_world],
               [start |-> 15, text |-> T_foo],
               [start |-> 35, text |-> T_hello_again] >>

SnippetSeqs ==
    UNION {[1..n -> Snippets] : n \in 0..MaxSnippets} \cup {Scenario}

----------------------------------------------------------------------------
(* Inputs of the ranker *)

MaxItems == 6

T_Hello_hello == <<"H", "e", "l", "l", "o", " ", "h", "e", "l", "l", "o">>
T_oooo        == <<"o", "o", "o", "o">>
T_hello       == <<"h", "e", "l", "l", "o">>
T_HELLO       == <<"H", "e", "l", "l", "o">>
T_zzz         == <<"z", "z", "z">>

\* Segment lists as fetch_transcript builds them: of 0, 1 and 2 segments.
SemanticSegmentLists ==
    {fetch_transcript(t) : t \in {<<>>, <<Scenario[1]>>, Scenario}}

LexicalSegmentLists ==
    SemanticSegmentLists \cup
    {fetch_transcript(<< [start |-> 0,  text |-> T_Hello_hello],
                         [start |-> 31, text |-> T_foo],
                         [start |-> 61, text |-> T_oooo] >>)}

\* Items of the external ranker's "results" list: the indices straddle both
\* ends of [0, len(segments)) for every segment list above.
Items == { [index |-> -1, score |-> 2],
           [index |-> 0,  score |-> 1],
           [index |-> 1,  score |-> 1],
           [index |-> 1,  score |-> 2],
           [index |-> 2,  score |-> 2] }

ItemSeqs == UNION {[1..n -> Items] : n \in 0..MaxItems}

TextOf(prefix, body, suffix) == [prefix |-> prefix, body |-> body, suffix |-> suffix]

Json(value) == [kind |-> "json", value |-> value]

Garbage == [kind |-> "garbage"]

\* A bare JSON reply {"results": items}.
ResultsReply(items) ==
    [kind |-> "reply", text |-> TextOf("", Json([results |-> items]), "")]

RequestError == [kind |-> "request_error", text |-> TextOf("", Garbage, "")]

SampleItems == << [index |-> 1, score |-> 1, reason |-> "r"],
                  [index |-> 0, score |-> 2] >>

\* Replies with and without fences, an unparsable body, a document without
\* "results", and items without "index" or "score".
OddReplies ==
    {RequestError}
    \cup {[kind |-> "reply", text |-> TextOf(p, b, x)] :
            p \in {"", "FENCE", "FENCE_JSON"},
            b \in {Garbage, Json([results |-> SampleItems])},
            x \in {"", "FENCE"}}
    \cup {[kind |-> "reply", text |-> TextOf("", Json([error |-> "overloaded"]), "")]}
    \cup {ResultsReply(<<[index |-> 0, score |-> 1], [index |-> 0]>>),
          ResultsReply(<<[index |-> 0, score |-> 1], [index |-> 7]>>),
          ResultsReply(<<[index |-> 0, score |-> 1], [score |-> 2]>>)}

Replies == {ResultsReply(items) : items \in ItemSeqs} \cup OddReplies

Queries == { T_hello, T_HELLO, T_zzz, T_foo, <<>>, <<" ">>,
             <<"o", "o">>, <<"l">>, <<"o", " ", "o">>,
             T_foo \o <<" ">> \o T_hello, <<" ">> \o T_hello \o <<" ">> }

NotCalled == Raised("")

----------------------------------------------------------------------------
(* Inputs of the request handlers *)

NumThreads == 2

Threads == 1..NumThreads

VideoA == <<"A">>
VideoB == <<"B">>

Urls == { <<>>, <<"x">>, <<"A">>, <<"v=", "x">>,
          <<"v=", "A">>, <<" ", "v=", "A", " ">>,
          <<"youtu.be/", "B">>, <<"embed/", "A">>, <<"shorts/", "B">>,
          <<"youtu.be/", "B", "v=", "A">>, <<"v=", "x", "v=", "B">> }

RawVideoIds == { <<>>, <<" ">>, VideoA, <<" ", "A", " ">>, VideoB, <<"A", "B">> }

RawQueries == { <<>>, <<" ">>, T_foo, <<" ">> \o T_foo }

\* What YouTubeTranscriptApi().fetch can return for a video; it can also raise.
TranscriptsOf(video_id) ==
    IF video_id = VideoA
    THEN {Scenario, <<[start |-> -1, text |-> <<" ">> \o T_foo]>>}
    ELSE {<<>>}

ServerReplies ==
    { RequestError,
      [kind |-> "reply", text |-> TextOf("FENCE_JSON", Garbage, "FENCE")],
      ResultsReply(<<>>),
      ResultsReply(<<[index |-> 0, score |-> 1], [index |-> 0]>>),
      ResultsReply(<< [index |-> 1, score |-> 1], [index |-> 0, score |-> 2],
                      [index |-> 2, score |-> 2] >>) }

NoLocals == [route |-> "", video_id |-> <<>>, query |-> <<>>, segments |-> <<>>]

NoResponse ==
    [thread |-> 0, route |-> "", video_id |-> <<>>, query |-> <<>>,
     status |-> 0, body |-> [error |-> ""]]

EmptyStore == [k \in {} |-> [segments |-> <<>>]]

SegOff ==
    /\ transcript_data = <<>>
    /\ segments = <<>>
    /\ current_segment = EmptySegment
    /\ entry_pos = 1
    /\ seg_pc = "off"

RankOff ==
    /\ rk_strategy = "off"
    /\ rk_segments = <<>>
    /\ rk_query = <<>>
    /\ rk_reply = RequestError
    /\ rk_out = NotCalled
    /\ rk_pc = "off"

ServerOff ==
    /\ videos_store = EmptyStore
    /\ pc = [t \in Threads |-> "off"]
    /\ loc = [t \in Threads |-> NoLocals]
    /\ response = NoResponse

----------------------------------------------------------------------------
(* Specification SegSpec: one run of fetch_transcript, statement by statement *)

SegInit ==
    /\ transcript_data \in SnippetSeqs
    /\ segments = <<>>
    /\ current_segment = EmptySegment
    /\ entry_pos = 1
    /\ seg_pc = "loop"
    /\ RankOff
    /\ ServerOff

SegIterate ==
    /\ seg_pc = "loop"
    /\ entry_pos <= Len(transcript_data)
    /\ LET st == LoopBody(segments, current_segment, transcript_data[entry_pos])
       IN  /\ segments' = st.segments
           /\ current_segment' = st.current
    /\ entry_pos' = entry_pos + 1
    /\ UNCHANGED <<transcript_data, seg_pc, rk_vars, srv_vars>>

SegReturn ==
    /\ seg_pc = "loop"
    /\ entry_pos > Len(transcript_data)
    /\ segments' = FinishSegments(segments, current_segment)
    /\ seg_pc' = "done"
    /\ UNCHANGED <<transcript_data, current_segment, entry_pos, rk_vars, srv_vars>>

SegNext == SegIterate \/ SegReturn

SegSpec == SegInit /\ [][SegNext]_vars

----------------------------------------------------------------------------
(* Specification RankSpec: one call of the ranker, under either strategy *)

RankInit ==
    /\ rk_pc = "call"
    /\ rk_out = NotCalled
    /\ \/ /\ rk_strategy = "SEMANTIC"
          /\ rk_segments \in SemanticSegmentLists
          /\ rk_query = T_hello
          /\ rk_reply \in Replies
       \/ /\ rk_strategy = "LEXICAL"
          /\ rk_segments \in LexicalSegmentLists
          /\ rk_query \in Queries
          /\ rk_reply = RequestError
    /\ SegOff
    /\ ServerOff

RankSemantic ==
    /\ rk_pc = "call"
    /\ rk_strategy = "SEMANTIC"
    /\ rk_out' = search_segments(rk_segments, rk_reply)
    /\ rk_pc' = "done"
    /\ UNCHANGED <<rk_strategy, rk_segments, rk_query, rk_reply, seg_vars, srv_vars>>

RankLexical ==
    /\ rk_pc = "call"
    /\ rk_strategy = "LEXICAL"
    /\ rk_out' = lexical_rank(rk_segments, rk_query)
    /\ rk_pc' = "done"
    /\ UNCHANGED <<rk_strategy, rk_segments, rk_query, rk_reply, seg_vars, srv_vars>>

RankNext == RankSemantic \/ RankLexical

RankSpec == RankInit /\ [][RankNext]_vars

----------------------------------------------------------------------------
(* Specification Spec: request threads serving /load and /search.  A handler  *)
(* is cut where it blocks on a provider and before its write to videos_store; *)
(* what it computes on its local variables between two cuts is one step.      *)

Init ==
    /\ videos_store = EmptyStore
    /\ pc = [t \in Threads |-> "idle"]
    /\ loc = [t \in Threads |-> NoLocals]
    /\ response = NoResponse
    /\ SegOff
    /\ RankOff

Respond(t, l, status, body) ==
    [thread |-> t, route |-> l.route, video_id |-> l.video_id, query |-> l.query,
     status |-> status, body |-> body]

LoadedBody(video_id, count) ==
    [video_id |-> video_id, thumbnail |-> get_thumbnail(video_id),
     segment_count |-> count]

\* load_video that reserves the store entry before fetching the transcript.
LoadRequestReserving(t) ==
    /\ pc[t] = "idle"
    /\ \E url \in Urls :
          LET video_id == extract_video_id(Strip(url))
              l == [route |-> "/load", video_id |-> video_id, query |-> <<>>,
                    segments |-> <<>>]
          IN  IF video_id = NoMatch
              THEN /\ response' = Respond(t, l, 400, [error |-> "Invalid YouTube URL"])
                   /\ UNCHANGED <<pc, loc, videos_store>>
              ELSE IF video_id \in DOMAIN videos_store
              THEN /\ response' =
                          Respond(t, l, 200,
                                  LoadedBody(video_id,
                                             Len(videos_store[video_id].segments)))
                   /\ UNCHANGED <<pc, loc, videos_store>>
              ELSE /\ pc' = [pc EXCEPT ![t] = "fetching"]
                   /\ loc' = [loc EXCEPT ![t] = l]
                   /\ videos_store' =
                          [k \in DOMAIN videos_store \cup {video_id} |->
                              IF k = video_id THEN [segments |-> <<>>]
                              ELSE videos_store[k]]
                   /\ UNCHANGED response
    /\ UNCHANGED <<seg_vars, rk_vars>>

\* load_video up to the call of fetch_transcript (lines 128-145).
LoadRequest(t) ==
    /\ pc[t] = "idle"
    /\ \E url \in Urls :
          LET video_id == extract_video_id(Strip(url))
              l == [route |-> "/load", video_id |-> video_id, query |-> <<>>,
                    segments |-> <<>>]
          IN  IF video_id = NoMatch
              THEN /\ response' = Respond(t, l, 400, [error |-> "Invalid YouTube URL"])
                   /\ UNCHANGED <<pc, loc>>
              ELSE IF video_id \in DOMAIN videos_store
              THEN /\ response' =
                          Respond(t, l, 200,
                                  LoadedBody(video_id,
                                             Len(videos_store[video_id].segments)))
                   /\ UNCHANGED <<pc, loc>>
              ELSE /\ pc' = [pc EXCEPT ![t] = "fetching"]
                   /\ loc' = [loc EXCEPT ![t] = l]
                   /\ UNCHANGED response
    /\ UNCHANGED <<videos_store, seg_vars, rk_vars>>

\* fetch_transcript returns or raises (lines 144-147).
LoadFetched(t) ==
    /\ pc[t] = "fetching"
    /\ \/ /\ response' = Respond(t, loc[t], 400, [error |-> "Could not fetch transcript"])
          /\ pc' = [pc EXCEPT ![t] = "idle"]
          /\ loc' = [loc EXCEPT ![t] = NoLocals]
       \/ \E snippets \in TranscriptsOf(loc[t].video_id) :
             /\ loc' = [loc EXCEPT ![t].segments = fetch_transcript(snippets)]
             /\ pc' = [pc EXCEPT ![t] = "storing"]
             /\ UNCHANGED response
    /\ UNCHANGED <<videos_store, seg_vars, rk_vars>>

\* videos_store[video_id] = {"segments": segments} and the response
\* (lines 149-156).
LoadStore(t) ==
    /\ pc[t] = "storing"
    /\ videos_store' =
          [k \in DOMAIN videos_store \cup {loc[t].video_id} |->
              IF k = loc[t].video_id THEN [segments |-> loc[t].segments]
              ELSE videos_store[k]]
    /\ response' = Respond(t, loc[t], 200,
                           LoadedBody(loc[t].video_id, Len(loc[t].segments)))
    /\ pc' = [pc EXCEPT ![t] = "idle"]
    /\ loc' = [loc EXCEPT ![t] = NoLocals]
    /\ UNCHANGED <<seg_vars, rk_vars>>

\* search that does not reject an empty query.
SearchRequestAnyQuery(t) ==
    /\ pc[t] = "idle"
    /\ \E raw_id \in RawVideoIds, raw_query \in RawQueries :
          LET video_id == Strip(raw_id)
              query == Strip(raw_query)
              l == [route |-> "/search", video_id |-> video_id, query |-> query,
                    segments |-> <<>>]
          IN  IF video_id = <<>> \/ video_id \notin DOMAIN videos_store
              THEN /\ response' = Respond(t, l, 400, [error |-> "Load a video first"])
                   /\ UNCHANGED <<pc, loc>>
              ELSE /\ pc' = [pc EXCEPT ![t] = "ranking"]
                   /\ loc' = [loc EXCEPT
                                 ![t] = [l EXCEPT
                                            !.segments = videos_store[video_id].segments]]
                   /\ UNCHANGED response
    /\ UNCHANGED <<videos_store, seg_vars, rk_vars>>

\* search up to the request to the external ranker (lines 161-172, 74-93).
SearchRequest(t) ==
    /\ pc[t] = "idle"
    /\ \E raw_id \in RawVideoIds, raw_query \in RawQueries :
          LET video_id == Strip(raw_id)
              query == Strip(raw_query)
              l == [route |-> "/search", video_id |-> video_id, query |-> query,
                    segments |-> <<>>]
          IN  IF video_id = <<>> \/ video_id \notin DOMAIN videos_store
              THEN /\ response' = Respond(t, l, 400, [error |-> "Load a video first"])
                   /\ UNCHANGED <<pc, loc>>
              ELSE IF query = <<>>
              THEN /\ response' = Respond(t, l, 400, [error |-> "Enter a search query"])
                   /\ UNCHANGED <<pc, loc>>
              ELSE /\ pc' = [pc EXCEPT ![t] = "ranking"]
                   /\ loc' = [loc EXCEPT
                                 ![t] = [l EXCEPT
                                            !.segments = videos_store[video_id].segments]]
                   /\ UNCHANGED response
    /\ UNCHANGED <<videos_store, seg_vars, rk_vars>>

\* Lines 179-181: every result gets the thumbnail and the video id.
Annotate(results, video_id) ==
    [i \in 1..Len(results) |->
        [f \in DOMAIN results[i] \cup {"thumbnail", "video_id"} |->
            IF f = "thumbnail" THEN get_thumbnail(video_id)
            ELSE IF f = "video_id" THEN video_id
            ELSE results[i][f]]]

\* search whose results alias the stored segments, so that annotating them
\* writes into videos_store.
SearchRankedAliasing(t) ==
    /\ pc[t] = "ranking"
    /\ \E reply \in ServerReplies :
          LET out == search_segments(loc[t].segments, reply)
          IN  IF ~out.ok
              THEN /\ response' = Respond(t, loc[t], 500, [error |-> "Search failed"])
                   /\ UNCHANGED videos_store
              ELSE IF out.results = <<>>
              THEN /\ response' =
                          Respond(t, loc[t], 200,
                                  [results |-> <<>>, message |-> "No matches found"])
                   /\ UNCHANGED videos_store
              ELSE /\ response' =
                          Respond(t, loc[t], 200,
                                  [results |-> Annotate(out.results, loc[t].video_id)])
                   /\ videos_store' =
                          [videos_store EXCEPT
                              ![loc[t].video_id] =
                                  [segments |-> Annotate(out.results, loc[t].video_id)]]
    /\ pc' = [pc EXCEPT ![t] = "idle"]
    /\ loc' = [loc EXCEPT ![t] = NoLocals]
    /\ UNCHANGED <<seg_vars, rk_vars>>

\* The external ranker answers; the rest of search_segments and of search
\* (lines 95-118, 173-183).
SearchRanked(t) ==
    /\ pc[t] = "ranking"
    /\ \E reply \in ServerReplies :
          LET out == search_segments(loc[t].segments, reply)
          IN  response' =
                  IF ~out.ok THEN Respond(t, loc[t], 500, [error |-> "Search failed"])
                  ELSE IF out.results = <<>>
                  THEN Respond(t, loc[t], 200,
                               [results |-> <<>>, message |-> "No matches found"])
                  ELSE Respond(t, loc[t], 200,
                               [results |-> Annotate(out.results, loc[t].video_id)])
    /\ pc' = [pc EXCEPT ![t] = "idle"]
    /\ loc' = [loc EXCEPT ![t] = NoLocals]
    /\ UNCHANGED <<videos_store, seg_vars, rk_vars>>

Next ==
    \E t \in Threads :
        \/ LoadRequest(t)
        \/ LoadFetched(t)
        \/ LoadStore(t)
        \/ SearchRequest(t)
        \/ SearchRanked(t)

Spec == Init /\ [][Next]_vars

----------------------------------------------------------------------------
(* Properties of the segmenter *)

\* The words of the texts of a sequence of records with a text field, in order.
RECURSIVE WordsOf(_)
WordsOf(items) ==
    IF items = <<>> THEN <<>> ELSE Split(Head(items).text) \o WordsOf(Tail(items))

\* The texts joined by single spaces.
RECURSIVE JoinSpace(_)
JoinSpace(items) ==
    IF items = <<>> THEN <<>>
    ELSE IF Len(items) = 1 THEN items[1].text
    ELSE items[1].text \o <<" ">> \o JoinSpace(Tail(items))

\* floor(start / 30) * 30
BucketFloor(start) == start - (start % segment_duration)

NonDecreasingStarts(snippets) ==
    \A i \in 1..Len(snippets) - 1 : snippets[i].start <= snippets[i + 1].start

InBucket(snippets, b) ==
    LET Test(f) == BucketFloor(f.start) = b IN SelectSeq(snippets, Test)

\* C1: for snippets with non-decreasing starts, every returned segment's start
\* is a non-negative multiple of 30 and the starts are strictly increasing in
\* list order.
C1_StartsNonNegativeMultiplesIncreasing ==
    (seg_pc = "done" /\ NonDecreasingStarts(transcript_data)) =>
        /\ \A i \in 1..Len(segments) :
              /\ segments[i].start >= 0
              /\ segments[i].start % segment_duration = 0
        /\ \A i \in 1..Len(segments) - 1 : segments[i].start < segments[i + 1].start

\* C2: for snippets with non-decreasing starts, there is exactly one segment per
\* bucket that holds a snippet, and its text is the stripped, single-space-joined
\* texts of the snippets of that bucket, in snippet order; the concrete scenario
\* yields {0, "hello world foo"}, {30, "hello again"}.
C2_OneSegmentPerBucketWithJoinedText ==
    (seg_pc = "done" /\ NonDecreasingStarts(transcript_data)) =>
        LET buckets ==
                {BucketFloor(transcript_data[i].start) : i \in 1..Len(transcript_data)}
        IN  /\ {segments[i].start : i \in 1..Len(segments)} = buckets
            /\ Len(segments) = Cardinality(buckets)
            /\ \A i \in 1..Len(segments) :
                  segments[i].text =
                      Strip(JoinSpace(InBucket(transcript_data, segments[i].start)))
            /\ transcript_data = Scenario =>
                  segments = << [start |-> 0,  text |-> T_hello_world_foo],
                                [start |-> 30, text |-> T_hello_again] >>

C2_Witness ==
    /\ seg_pc = "done"
    /\ NonDecreasingStarts(transcript_data)
    /\ Len(transcript_data) = 3
    /\ Len(segments) = 2
    /\ \E i \in 1..2 : Len(InBucket(transcript_data, segments[i].start)) = 2
    /\ \E i \in 1..3 : transcript_data[i].text # Strip(transcript_data[i].text)

\* C3: for every non-empty snippet sequence, in any order of starts, the words of
\* the returned segments in list order are the words of the snippets in input
\* order.
C3_WordsPreserved ==
    (seg_pc = "done" /\ transcript_data # <<>>) =>
        WordsOf(segments) = WordsOf(transcript_data)

C3_Witness ==
    /\ seg_pc = "done"
    /\ ~NonDecreasingStarts(transcript_data)
    /\ Len(segments) = 3
    /\ Len(WordsOf(transcript_data)) >= 4

\* C4: a single snippet whose start is negative or zero yields one segment whose
\* start is 0.
C4_SingleNonPositiveStartIsBucketZero ==
    (seg_pc = "done" /\ Len(transcript_data) = 1 /\ transcript_data[1].start <= 0) =>
        /\ Len(segments) = 1
        /\ segments[1].start = 0

----------------------------------------------------------------------------
(* Properties of the SEMANTIC ranker *)

\* The reply is a JSON document with a "results" list.
HasResultsList(reply) ==
    /\ reply.kind = "reply"
    /\ json_loads(StripFences(reply.text)).ok
    /\ "results" \in DOMAIN json_loads(StripFences(reply.text)).results

ResultsList(reply) == json_loads(StripFences(reply.text)).results.results

FirstN(items, n) == [i \in 1..(IF Len(items) < n THEN Len(items) ELSE n) |-> items[i]]

InRange(item, segs) == 0 <= item.index /\ item.index < Len(segs)

\* Every item carries an index, and a score too when its index is in range.
ItemsWellFormed(items, segs) ==
    \A i \in 1..Len(items) :
        /\ "index" \in DOMAIN items[i]
        /\ InRange(items[i], segs) => "score" \in DOMAIN items[i]

InRangeItems(items, segs) ==
    LET Test(item) == InRange(item, segs) IN SelectSeq(items, Test)

HowMany(entries, index, score) ==
    Cardinality({i \in 1..Len(entries) :
                    entries[i].index = index /\ entries[i].score = score})

\* The results are exactly the given entries, in some order.
SameEntries(results, entries) ==
    /\ Len(results) = Len(entries)
    /\ \A i \in 1..Len(entries) :
          HowMany(results, entries[i].index, entries[i].score)
              = HowMany(entries, entries[i].index, entries[i].score)

CopiedFromSegments(results, segs) ==
    \A i \in 1..Len(results) :
        /\ 0 <= results[i].index /\ results[i].index < Len(segs)
        /\ results[i].start = segs[results[i].index + 1].start
        /\ results[i].text = segs[results[i].index + 1].text

SemanticDone == rk_pc = "done" /\ rk_strategy = "SEMANTIC"

\* C7 as stated: out-of-range entries are dropped without failing the call, which
\* returns the in-range entries of the response, each with an index in
\* [0, len(segments)) and start and text copied from segments[index].
C7_OutOfRangeDroppedAllInRangeReturned ==
    (/\ SemanticDone
     /\ HasResultsList(rk_reply)
     /\ ItemsWellFormed(ResultsList(rk_reply), rk_segments)) =>
        /\ rk_out.ok
        /\ CopiedFromSegments(rk_out.results, rk_segments)
        /\ SameEntries(rk_out.results, InRangeItems(ResultsList(rk_reply), rk_segments))

\* C7 amended: out-of-range entries are dropped without failing the call, which
\* returns the in-range entries among the first top_n (5) entries of the
\* response, each with an index in [0, len(segments)) and start and text copied
\* from segments[index].
C7_OutOfRangeDroppedInRangeOfFirstTopNReturned ==
    (/\ SemanticDone
     /\ HasResultsList(rk_reply)
     /\ ItemsWellFormed(FirstN(ResultsList(rk_reply), top_n), rk_segments)) =>
        /\ rk_out.ok
        /\ CopiedFromSegments(rk_out.results, rk_segments)
        /\ SameEntries(rk_out.results,
                       InRangeItems(FirstN(ResultsList(rk_reply), top_n), rk_segments))

C7_Witness ==
    /\ SemanticDone
    /\ HasResultsList(rk_reply)
    /\ rk_out.ok
    /\ Len(rk_out.results) = 2
    /\ LET items == FirstN(ResultsList(rk_reply), top_n)
       IN  /\ \E i \in 1..Len(items) : items[i].index = Len(rk_segments)
           /\ \E i \in 1..Len(items) : items[i].index < 0
           /\ items[1].index = -1

MaxScoreOf(entries) ==
    CHOOSE m \in {entries[i].score : i \in 1..Len(entries)} :
        \A i \in 1..Len(entries) : entries[i].score <= m

\* Descending by score, entries of equal score in their given order: the entries
\* of the highest score first, then the same for the rest.
RECURSIVE StableDescending(_)
StableDescending(entries) ==
    IF entries = <<>> THEN <<>>
    ELSE LET top == MaxScoreOf(entries)
             IsTop(e) == e.score = top
             NotTop(e) == e.score # top
         IN  SelectSeq(entries, IsTop) \o StableDescending(SelectSeq(entries, NotTop))

SameOrder(results, entries) ==
    /\ Len(results) = Len(entries)
    /\ \A i \in 1..Len(entries) :
          /\ results[i].index = entries[i].index
          /\ results[i].score = entries[i].score

\* C8 as stated: the returned list is the validated entries of the response in
\* descending order of score, entries of equal score in the response's order.
C8_ValidatedEntriesSortedStable ==
    (/\ SemanticDone
     /\ rk_out.ok
     /\ ItemsWellFormed(ResultsList(rk_reply), rk_segments)) =>
        SameOrder(rk_out.results,
                  StableDescending(InRangeItems(ResultsList(rk_reply), rk_segments)))

\* C8 amended: the returned list is the validated entries among the first top_n
\* (5) entries of the response in descending order of score, entries of equal
\* score in the response's order.
C8_ValidatedOfFirstTopNSortedStable ==
    (SemanticDone /\ rk_out.ok) =>
        SameOrder(rk_out.results,
                  StableDescending(
                      InRangeItems(FirstN(ResultsList(rk_reply), top_n), rk_segments)))

C8_Witness ==
    /\ SemanticDone
    /\ rk_out.ok
    /\ Len(rk_out.results) = 4
    /\ rk_out.results[1].score > rk_out.results[4].score
    /\ \E i \in 1..3 :
          /\ rk_out.results[i].score = rk_out.results[i + 1].score
          /\ rk_out.results[i].index > rk_out.results[i + 1].index
    /\ LET items == ResultsList(rk_reply)
       IN  items[1].score < items[Len(items)].score

----------------------------------------------------------------------------
(* Properties of the LEXICAL ranker *)

MatchPositions(text, term) ==
    {i \in 1..(Len(text) - Len(term) + 1) : SubSeq(text, i, i + Len(term) - 1) = term}

\* The number of non-overlapping occurrences: the size of a largest set of
\* occurrences no two of which overlap.
NonOverlapping(text, term) ==
    LET disjoint == {P \in SUBSET MatchPositions(text, term) :
                        \A i, j \in P : i # j => (i - j >= Len(term) \/ j - i >= Len(term))}
    IN  CHOOSE n \in 0..Len(text) :
            /\ \E P \in disjoint : Cardinality(P) = n
            /\ \A P \in disjoint : Cardinality(P) <= n

RECURSIVE SumNonOverlapping(_, _)
SumNonOverlapping(text, terms) ==
    IF terms = <<>> THEN 0
    ELSE NonOverlapping(text, Head(terms)) + SumNonOverlapping(text, Tail(terms))

TermFrequency(seg, query) == SumNonOverlapping(Lower(seg.text), Split(Lower(query)))

LexicalDone == rk_pc = "done" /\ rk_strategy = "LEXICAL"

\* C10: under LEXICAL every returned score is the sum over the lower-cased query
\* terms of the non-overlapping occurrences in the lower-cased text and is > 0; a
\* query matching no segment returns an empty list and no error; "hello" over
\* {0,"hello world foo"}, {30,"hello again"} returns both with score 1 in order.
C10_LexicalScoresPositive ==
    LexicalDone =>
        /\ rk_out.ok
        /\ \A i \in 1..Len(rk_out.results) :
              LET r == rk_out.results[i] IN
              /\ r.score > 0
              /\ r.score = TermFrequency(rk_segments[r.index + 1], rk_query)
        /\ (\A i \in 1..Len(rk_segments) : TermFrequency(rk_segments[i], rk_query) = 0)
              => rk_out.results = <<>>
        /\ rk_query = T_zzz => rk_out.results = <<>>
        /\ (rk_query = T_hello /\ rk_segments = fetch_transcript(Scenario)) =>
              /\ Len(rk_out.results) = 2
              /\ rk_out.results[1].index = 0 /\ rk_out.results[1].start = 0
              /\ rk_out.results[2].index = 1 /\ rk_out.results[2].start = 30
              /\ rk_out.results[1].score = 1 /\ rk_out.results[2].score = 1

C10_Witness ==
    /\ LexicalDone
    /\ rk_out.ok
    /\ Len(rk_out.results) = 2
    /\ Len(rk_segments) = 3
    /\ rk_out.results[1].score >= 2
    /\ rk_out.results[1].index > rk_out.results[2].index

----------------------------------------------------------------------------
(* Properties of the request handlers *)

\* Thread t takes the step.
StepOf(t) == pc'[t] # pc[t] \/ (response' # response /\ response'.thread = t)

\* The request thread t accepts or answers in the step: route, video id, query.
RequestOf(t) == IF pc'[t] # "idle" THEN loc'[t] ELSE response'

\* The segment lists complete runs of fetch_transcript return, per video.
CompleteRuns ==
    [v \in {VideoA, VideoB} |-> {fetch_transcript(t) : t \in TranscriptsOf(v)}]

IsCompleteRun(video_id, segs) == segs \in CompleteRuns[video_id]

\* Every stored entry, and every segment list a search has read, is the whole
\* result of one run of fetch_transcript on a transcript of that video.
StoreComplete ==
    /\ \A v \in DOMAIN videos_store :
          /\ DOMAIN videos_store[v] = {"segments"}
          /\ IsCompleteRun(v, videos_store[v].segments)
    /\ \A t \in Threads :
          pc[t] = "ranking" => IsCompleteRun(loc[t].video_id, loc[t].segments)

\* C5: under any interleaving of /load and /search requests every key of
\* videos_store maps to the complete segment list of a finished segmenter run and
\* no search reads a partial list; a load whose fetch fails leaves the store
\* unchanged, and a load of a video that is not stored fetches.
C5_StoreHoldsOnlyCompleteRuns ==
    [][ /\ StoreComplete'
        /\ \A t \in Threads :
              /\ (StepOf(t) /\ pc[t] = "fetching" /\ pc'[t] = "idle") =>
                    /\ videos_store' = videos_store
                    /\ response'.status = 400
              /\ (/\ StepOf(t) /\ pc[t] = "idle"
                  /\ RequestOf(t).route = "/load"
                  /\ RequestOf(t).video_id # NoMatch
                  /\ RequestOf(t).video_id \notin DOMAIN videos_store) =>
                    pc'[t] = "fetching"
      ]_vars

C5_Witness ==
    /\ VideoA \in DOMAIN videos_store
    /\ response.status = 400 /\ response.route = "/load" /\ response.video_id = VideoB
    /\ VideoB \notin DOMAIN videos_store
    /\ \E t, u \in Threads :
          /\ pc[t] = "storing"
          /\ loc[t].video_id = VideoA
          /\ loc[t].segments # videos_store[VideoA].segments
          /\ pc[u] = "fetching"
          /\ loc[u].video_id = VideoB

\* C6: a /search request never changes videos_store, whatever its outcome (results,
\* no matches, a failure of the ranker), and its video stays in the store, so a
\* retried search of it is accepted.
C6_SearchLeavesStoreUnchanged ==
    [][ \A t \in Threads :
            (/\ StepOf(t)
             /\ \/ pc[t] = "ranking"
                \/ pc[t] = "idle" /\ RequestOf(t).route = "/search") =>
                /\ videos_store' = videos_store
                /\ pc[t] = "ranking" => loc[t].video_id \in DOMAIN videos_store'
      ]_vars

C6_Witness ==
    /\ response.route = "/search"
    /\ response.status = 500
    /\ pc[response.thread] = "ranking"
    /\ loc[response.thread].video_id = response.video_id
    /\ loc[response.thread].segments = videos_store[response.video_id].segments
    /\ Len(loc[response.thread].segments) = 2

InvalidInput(req, store) ==
    \/ req.route = "/load" /\ req.video_id = NoMatch
    \/ req.route = "/search" /\ (req.query = <<>> \/ req.video_id \notin DOMAIN store)

\* C9: an invalid request (a /load whose URL yields no video id, a /search with an
\* empty query or a video id that is not stored) is answered at once with an
\* error, calls no provider and leaves videos_store unchanged; a search reaches
\* the ranker only for a video stored by a successful load.
C9_InvalidInputHasNoEffect ==
    [][ /\ \A t \in Threads :
              /\ (/\ StepOf(t) /\ pc[t] = "idle"
                  /\ InvalidInput(RequestOf(t), videos_store)) =>
                    /\ pc'[t] = "idle"
                    /\ response'.thread = t
                    /\ response'.status = 400
                    /\ videos_store' = videos_store
              /\ (pc[t] # "ranking" /\ pc'[t] = "ranking") =>
                    /\ loc'[t].video_id \in DOMAIN videos_store
                    /\ loc'[t].query # <<>>
        /\ \A v \in DOMAIN videos_store' :
              v \notin DOMAIN videos_store =>
                  /\ response'.route = "/load"
                  /\ response'.video_id = v
                  /\ response'.status = 200
      ]_vars

C9_Witness ==
    /\ response.route = "/search"
    /\ response.status = 400
    /\ response.query = <<>>
    /\ response.video_id \in DOMAIN videos_store
    /\ \E t \in Threads : pc[t] = "ranking"

====
